---- MODULE Spec2Model ----
(***************************************************************************)
(* A model of the machine-translation notebook solution_4.ipynb: the       *)
(* corpus loading cell (read, load loop, random.shuffle, split), the data  *)
(* preparation cell (Tokenizer, max length, sequence_texts,                *)
(* to_categorical) and the training cell (model.fit with a ModelCheckpoint *)
(* callback).                                                              *)
(*                                                                         *)
(* A Python str is a sequence of one-character strings, a list or a numpy  *)
(* array a sequence (index 1 is Python's index 0), a token a str.          *)
(***************************************************************************)
EXTENDS Integers, Sequences, FiniteSets, TLC

(***************************************************************************)
(* Python str and list primitives                                          *)
(***************************************************************************)

\* The characters str.split() with no argument splits on.
Whitespace == {" ", "\t", "\n", "\r", "\f"}

\* The default filters of Keras' Tokenizer: the ASCII punctuation except the
\* apostrophe, plus tab and newline.  (The backquote, also a filter, cannot
\* be written in a TLA+ string; no text of the model contains one.)
Filters ==
  {"!", "\"", "#", "$", "%", "&", "(", ")", "*", "+", ",", "-", ".", "/",
   ":", ";", "<", "=", ">", "?", "@", "[", "\\", "]", "^", "_", "{",
   "|", "}", "~", "\t", "\n"}

UpperCase ==
  <<"A", "B", "C", "D", "E", "F", "G", "H", "I", "J", "K", "L", "M",
    "N", "O", "P", "Q", "R", "S", "T", "U", "V", "W", "X", "Y", "Z">>

LowerCase ==
  <<"a", "b", "c", "d", "e", "f", "g", "h", "i", "j", "k", "l", "m",
    "n", "o", "p", "q", "r", "s", "t", "u", "v", "w", "x", "y", "z">>

\* str.lower() on one character.
LowerChar(c) ==
  IF \E k \in 1..Len(UpperCase) : UpperCase[k] = c
  THEN LowerCase[CHOOSE k \in 1..Len(UpperCase) : UpperCase[k] = c]
  ELSE c

\* str.lower()
Lower(text) == [k \in 1..Len(text) |-> LowerChar(text[k])]

\* str.translate with a map sending every character of chars to sep.
Translate(text, chars, sep) ==
  [k \in 1..Len(text) |-> IF text[k] \in chars THEN sep ELSE text[k]]

\* str.split(sep) with an explicit one-character separator: the fields
\* between the separators, empty fields kept ("".split(sep) is [""]).
RECURSIVE StrSplit(_, _)
StrSplit(text, sep) ==
  IF \A k \in 1..Len(text) : text[k] # sep
  THEN <<text>>
  ELSE LET k == CHOOSE k \in 1..Len(text) :
                   text[k] = sep /\ \A m \in 1..(k - 1) : text[m] # sep
       IN  <<SubSeq(text, 1, k - 1)>>
             \o StrSplit(SubSeq(text, k + 1, Len(text)), sep)

\* [i for i in seq if i]
NonEmpty(seq) == SelectSeq(seq, LAMBDA f : Len(f) > 0)

\* str.split() with no argument: the maximal runs of non-whitespace.
SplitWhitespace(text) == NonEmpty(StrSplit(Translate(text, Whitespace, " "), " "))

\* ' '.join(words)
RECURSIVE JoinWith(_, _)
JoinWith(words, sep) ==
  IF Len(words) = 0 THEN <<>>
  ELSE IF Len(words) = 1 THEN words[1]
  ELSE words[1] \o <<sep>> \o JoinWith(Tail(words), sep)

\* max(...) of a non-empty sequence of integers.
Max(seq) == CHOOSE m \in {seq[k] : k \in 1..Len(seq)} :
              \A k \in 1..Len(seq) : seq[k] <= m

\* column c (0 or 1) of a two-column array: a[:, c]
Column(a, c) == [k \in 1..Len(a) |-> a[k][c + 1]]

\* a[lo:hi] with 0 <= lo: Python's slice, the bounds clipped to the length.
PySlice(a, lo, hi) ==
  SubSeq(a, lo + 1, IF hi < Len(a) THEN hi ELSE Len(a))

\* s[-n:] with n >= 0: the last n items; s[-0:] is s[0:], all of s.
PyLast(s, n) ==
  IF n = 0 \/ n >= Len(s) THEN s ELSE SubSeq(s, Len(s) - n + 1, Len(s))

(***************************************************************************)
(* IEEE 754 double arithmetic of int(0.15 * n).  A natural number is a     *)
(* little-endian sequence of bits, so that no intermediate value leaves    *)
(* the range of the integers the checker computes with.                    *)
(***************************************************************************)

\* The 53-bit significand of the double nearest 0.15, 0x13333333333333:
\* the literal 0.15 is this number times 2^-55.
Significand015 ==
  [k \in 1..53 |-> IF k = 53 \/ (k - 1) % 4 \in {0, 1} THEN 1 ELSE 0]

RECURSIVE BitsOf(_)
BitsOf(n) == IF n = 0 THEN <<>> ELSE <<n % 2>> \o BitsOf(n \div 2)

RECURSIVE ValueOf(_)
ValueOf(bits) ==
  IF Len(bits) = 0 THEN 0 ELSE bits[1] + 2 * ValueOf(Tail(bits))

\* bits * n, exactly.
RECURSIVE MulBits(_, _, _)
MulBits(bits, n, carry) ==
  IF Len(bits) = 0 THEN BitsOf(carry)
  ELSE LET t == bits[1] * n + carry
       IN  <<t % 2>> \o MulBits(Tail(bits), n, t \div 2)

\* bits + 1
RECURSIVE IncBits(_)
IncBits(bits) ==
  IF Len(bits) = 0 THEN <<1>>
  ELSE IF bits[1] = 0 THEN <<1>> \o Tail(bits)
  ELSE <<0>> \o IncBits(Tail(bits))

\* The exact product rounded to 53 significant bits, ties to even: the pair
\* of the rounded significand and the number of low bits dropped.
RoundToDouble(product) ==
  LET d    == Len(product) - 53
      keep == SubSeq(product, d + 1, Len(product))
      up   == /\ d > 0
              /\ product[d] = 1
              /\ \/ \E k \in 1..(d - 1) : product[k] = 1
                 \/ keep[1] = 1
  IN  [sig |-> IF up THEN IncBits(keep) ELSE keep, dropped |-> d]

\* int(0.15 * n) for n >= 1: the double product, truncated toward zero.
IntOfFraction(n) ==
  LET r == RoundToDouble(MulBits(Significand015, n, 0))
      f == 55 - r.dropped     \* the number of fraction bits of r.sig
  IN  ValueOf(SubSeq(r.sig, f + 1, Len(r.sig)))

(***************************************************************************)
(* keras.preprocessing.text.Tokenizer, with its default arguments          *)
(***************************************************************************)

\* text_to_word_sequence(text, filters, lower=True, split=' ')
TextToWordSequence(text) ==
  NonEmpty(StrSplit(Translate(Lower(text), Filters, " "), " "))

\* The words of all texts, in order.
RECURSIVE AllWords(_)
AllWords(texts) ==
  IF Len(texts) = 0 THEN <<>>
  ELSE TextToWordSequence(texts[1]) \o AllWords(Tail(texts))

\* word_counts, an OrderedDict: the (word, count) items in first-seen order.
RECURSIVE WordCounts(_, _)
WordCounts(words, counts) ==
  IF Len(words) = 0 THEN counts
  ELSE LET w == words[1]
       IN  WordCounts(Tail(words),
             IF \E k \in 1..Len(counts) : counts[k].w = w
             THEN [k \in 1..Len(counts) |->
                     IF counts[k].w = w
                     THEN [w |-> w, n |-> counts[k].n + 1]
                     ELSE counts[k]]
             ELSE Append(counts, [w |-> w, n |-> 1]))

\* wcounts.sort(key=lambda x: x[1], reverse=True): a stable sort, so items of
\* equal count keep their first-seen order.
RECURSIVE SortByCount(_, _)
SortByCount(items, sorted) ==
  IF Len(items) = 0 THEN sorted
  ELSE LET e   == items[1]
           pos == Cardinality({k \in 1..Len(sorted) : sorted[k].n >= e.n})
       IN  SortByCount(Tail(items),
             SubSeq(sorted, 1, pos) \o <<e>> \o SubSeq(sorted, pos + 1, Len(sorted)))

\* FitOnTexts numbering the words from 0.
FitOnTextsFromZero(texts) ==
  LET fitted == WordCounts(AllWords(texts), <<>>)
      words  == [k \in 1..Len(fitted) |-> fitted[k].w]
  IN  [word_index |-> [w \in {words[k] : k \in 1..Len(words)} |->
                         (CHOOSE k \in 1..Len(words) : words[k] = w) - 1],
       index_word |-> [i \in 0..(Len(words) - 1) |-> words[i + 1]]]

\* dict(zip(keys, values)): a later item of the same key wins.
DictZip(keys, values) ==
  [w \in {keys[k] : k \in 1..Len(keys)} |->
     values[CHOOSE k \in 1..Len(keys) :
              keys[k] = w /\ \A m \in (k + 1)..Len(keys) : keys[m] # w]]

\* Tokenizer.fit_on_texts: word_index gives the words the ids 1, 2, ... by
\* decreasing count; index_word is its inverse.
FitOnTexts(texts) ==
  LET wcounts    == SortByCount(WordCounts(AllWords(texts), <<>>), <<>>)
      sorted_voc == [k \in 1..Len(wcounts) |-> wcounts[k].w]
      ids        == [k \in 1..Len(sorted_voc) |-> k]
  IN  [word_index |-> DictZip(sorted_voc, ids),
       index_word |-> DictZip(ids, sorted_voc)]

\* TextToSequence giving an unknown word the placeholder id 0.
TextToSequenceOovZero(tokenizer, text) ==
  LET seq == TextToWordSequence(text)
  IN  [k \in 1..Len(seq) |->
         IF seq[k] \in DOMAIN tokenizer.word_index
         THEN tokenizer.word_index[seq[k]]
         ELSE 0]

\* Tokenizer.texts_to_sequences on one text: a word that is not in
\* word_index is skipped (no oov_token is set).
TextToSequence(tokenizer, text) ==
  LET seq   == TextToWordSequence(text)
      known == SelectSeq(seq, LAMBDA w : w \in DOMAIN tokenizer.word_index)
  IN  [k \in 1..Len(known) |-> tokenizer.word_index[known[k]]]

TextsToSequences(tokenizer, texts) ==
  [r \in 1..Len(texts) |-> TextToSequence(tokenizer, texts[r])]

\* SequenceToText joining the words with nothing between them.
RECURSIVE Concat(_)
Concat(words) == IF Len(words) = 0 THEN <<>> ELSE words[1] \o Concat(Tail(words))

SequenceToTextUnspaced(tokenizer, sequence) ==
  LET known == SelectSeq(sequence, LAMBDA i : i \in DOMAIN tokenizer.index_word)
  IN  Concat([k \in 1..Len(known) |-> tokenizer.index_word[known[k]]])

\* Tokenizer.sequences_to_texts on one sequence: an id that is not in
\* index_word (0, the padding) is skipped; the words are joined by spaces.
SequenceToText(tokenizer, sequence) ==
  LET known == SelectSeq(sequence, LAMBDA i : i \in DOMAIN tokenizer.index_word)
  IN  JoinWith([k \in 1..Len(known) |-> tokenizer.index_word[known[k]]], " ")

SequencesToTexts(tokenizer, sequences) ==
  [r \in 1..Len(sequences) |-> SequenceToText(tokenizer, sequences[r])]

(***************************************************************************)
(* keras.preprocessing.sequence.pad_sequences(..., maxlen, padding='post') *)
(* with the default truncating='pre' and value=0                           *)
(***************************************************************************)

\* PadRow with padding='pre': the zeros come first.
PadRowPre(s, maxlen) ==
  LET trunc == PyLast(s, maxlen)
      gap   == maxlen - Len(trunc)
  IN  [k \in 1..maxlen |-> IF k > gap THEN trunc[k - gap] ELSE 0]

\* One row: trunc = s[-maxlen:], written to x[idx, :len(trunc)], the rest of
\* the row keeping the fill value 0.
PadRow(s, maxlen) ==
  LET trunc == PyLast(s, maxlen)
  IN  [k \in 1..maxlen |-> IF k <= Len(trunc) THEN trunc[k] ELSE 0]

\* x[idx, :len(trunc)] = trunc raises ValueError when trunc is longer than
\* the row, which s[-0:] makes of a non-empty s when maxlen is 0.
PadSequencesRaises(sequences, maxlen) ==
  \E r \in 1..Len(sequences) : Len(PyLast(sequences[r], maxlen)) > maxlen

PadSequences(sequences, maxlen) ==
  [r \in 1..Len(sequences) |-> PadRow(sequences[r], maxlen)]

(***************************************************************************)
(* tensorflow.keras.utils.to_categorical(y, num_classes)                   *)
(***************************************************************************)

\* OneHot leaving the padding id 0 without a 1.
OneHotMaskedPad(id, num_classes) ==
  [k \in 1..num_classes |-> IF k = id + 1 /\ id # 0 THEN 1 ELSE 0]

\* One row of the zero matrix with categorical[row, id] = 1; index 1 is
\* class 0.
OneHot(id, num_classes) ==
  [k \in 1..num_classes |-> IF k = id + 1 THEN 1 ELSE 0]

\* categorical[np.arange(n), y] = 1 raises IndexError for an id outside the
\* classes.
ToCategoricalRaises(y, num_classes) ==
  \E r \in 1..Len(y) : \E t \in 1..Len(y[r]) : y[r][t] >= num_classes

\* y has the shape (n, maxlen).  The result has the shape
\* (n, maxlen, num_classes), except that a last axis of size 1 is dropped
\* from the input shape first: for maxlen = 1 it is (n, num_classes).
ToCategorical(y, maxlen, num_classes) ==
  IF maxlen = 1
  THEN [r \in 1..Len(y) |-> OneHot(y[r][1], num_classes)]
  ELSE [r \in 1..Len(y) |->
          [t \in 1..maxlen |-> OneHot(y[r][t], num_classes)]]

(***************************************************************************)
(* The functions of the data preparation cell                              *)
(***************************************************************************)

return_fitted_tokenizer(texts) == FitOnTexts(texts)

calculate_max_length(texts) ==
  Max([r \in 1..Len(texts) |-> Len(SplitWhitespace(texts[r]))])

sequence_texts(tokenizer, maxlen, texts) ==
  PadSequences(TextsToSequences(tokenizer, texts), maxlen)

sequence_texts_raises(tokenizer, maxlen, texts) ==
  PadSequencesRaises(TextsToSequences(tokenizer, texts), maxlen)

\* vocab_size without the class of the padding id 0.
vocab_size_without_pad(tokenizer) == Cardinality(DOMAIN tokenizer.word_index)

\* len(tokenizer.word_index) + 1
vocab_size(tokenizer) == Cardinality(DOMAIN tokenizer.word_index) + 1

(***************************************************************************)
(* The corpus loading cell                                                 *)
(***************************************************************************)

\* f.read().split("\n")[:-1]
ReadLines(text) ==
  LET all == StrSplit(text, "\n") IN SubSeq(all, 1, Len(all) - 1)

\* SwapRows exchanging the source fields of rows i and j only.
SwapRowsFirstField(x, i, j) ==
  [x EXCEPT ![i + 1] = <<x[j + 1][1], x[i + 1][2]>>,
            ![j + 1] = <<x[i + 1][1], x[j + 1][2]>>]

\* x[i], x[j] = x[j], x[i] of random.shuffle on a two-dimensional numpy
\* array (i and j are Python's indices).  The right-hand side is a pair of
\* views of rows j and i, not of copies: x[i] = (view of row j) copies row j
\* into row i, and x[j] = (view of row i) then reads row i as just written.
SwapRows(x, i, j) ==
  LET x1 == [x  EXCEPT ![i + 1] = x[j + 1]]
      x2 == [x1 EXCEPT ![j + 1] = x1[i + 1]]
  IN  x2

\* NumValSamples rounding to the nearest integer instead of truncating.
NumValSamplesRounded(n) == IntOfFraction(n) + (IF (15 * n) % 100 >= 50 THEN 1 ELSE 0)

\* int(0.15 * len(text_pairs))
NumValSamples(n) == IntOfFraction(n)

\* len(text_pairs) - 2 * num_val_samples
NumTrainSamples(n, nval) == n - 2 * nval

\* text_pairs[:num_train_samples]
TrainSlice(pairs, ntrain, nval) == PySlice(pairs, 0, ntrain)

\* text_pairs[num_train_samples : num_train_samples + num_val_samples]
ValSlice(pairs, ntrain, nval) == PySlice(pairs, ntrain, ntrain + nval)

\* text_pairs[num_train_samples + num_val_samples :]
TestSlice(pairs, ntrain, nval) == PySlice(pairs, ntrain + nval, Len(pairs))

(***************************************************************************)
(* Inputs                                                                  *)
(***************************************************************************)

\* The lines short input files are made of: five well-formed lines, a line
\* without a tab, a line with two tabs and the empty line.
LineGo    == <<"G", "o", ".", "\t", "V", "e", ".">>
LineRun   == <<"R", "u", "n", "!", "\t", "C", "o", "r", "r", "e", "!">>
LineIGo   == <<"I", " ", "g", "o", "\t", "V", "o", "y">>
LineHyph  == <<"a", "-", "b", " ", "c", "\t", "d", ".", "e">>
LineFar   == <<"R", "u", "n", " ", "f", "a", "r", " ", "a", "w", "a", "y", "\t",
               "C", "o", "r", "r", "e", " ", "l", "e", "j", "o", "s">>
LineNoTab == <<"G", "o", ".">>
LineTabs  == <<"a", "\t", "b", "\t", "c">>
LineEmpty == <<>>

FileLines ==
  {LineGo, LineRun, LineIGo, LineHyph, LineFar, LineNoTab, LineTabs, LineEmpty}

\* The longest short file, in lines.
MaxLines == 2

\* The cap of the load loop.  The notebook's cap is 10000; the model's is
\* the least corpus size whose validation and test partitions are not empty.
SampleCap == 7

\* A file longer than the cap: the lines the run loads are well-formed, the
\* last line, which is past the cap, is not.
LongLines ==
  <<LineIGo, LineGo, LineIGo, LineIGo, LineIGo, LineFar, LineHyph, LineIGo,
    LineNoTab>>

\* "\n".join(ls), followed by end
RECURSIVE FileOf(_, _)
FileOf(ls, end) ==
  IF Len(ls) = 0 THEN end
  ELSE IF Len(ls) = 1 THEN ls[1] \o end
  ELSE ls[1] \o <<"\n">> \o FileOf(Tail(ls), end)

\* The long file without its last line: every line is well-formed.
LongWellFormed == SubSeq(LongLines, 1, Len(LongLines) - 1)

\* The two-pair corpus [["go.", "ve."], ["run!", "corre!"]] as a file.
EndToEndLines ==
  <<<<"g", "o", ".", "\t", "v", "e", ".">>,
    <<"r", "u", "n", "!", "\t", "c", "o", "r", "r", "e", "!">>>>

EndToEndFile == FileOf(EndToEndLines, <<"\n">>)

\* The short files and the long file of well-formed lines, each with and
\* without the newline after its last line, the long file and the two-pair
\* file.
Files ==
  {FileOf(ls, end) :
     ls \in UNION {[1..n -> FileLines] : n \in 0..MaxLines} \cup {LongWellFormed},
     end \in {<<>>, <<"\n">>}}
  \cup {FileOf(LongLines, <<"\n">>), EndToEndFile}

(***************************************************************************)
(* State                                                                   *)
(***************************************************************************)

VARIABLES
  pc,              \* the statement the run is at
  error,           \* the exception that ended the run, or "none"
  file,            \* the text of spa.txt
  lines,
  idx,
  text_pairs,      \* <<>> stands for None
  shuffle_i,       \* the loop index i of random.shuffle
  num_val_samples,
  num_train_samples,
  train,
  val,
  test,
  eng_tokenizer,
  eng_vocab_size,
  eng_length,
  X_train,
  X_val,
  X_test,
  spa_tokenizer,
  spa_vocab_size,
  spa_length,
  Y_train,
  Y_val,
  Y_test,
  texts,           \* the arguments and results of the cell's functions
  tokenizer,       \*   called on their own
  maxlen,
  probe,
  sequences,
  sentences,
  labels,          \* the result of to_categorical called on its own
  num_train,       \* len(X_train) of the training call
  epoch,           \* the epochs completed
  step,            \* the batches trained in the current epoch
  num_val,         \* len(X_val) of the training call
  batch,           \* the last batch of the epoch: the slice start:stop of
                   \*   the epoch's shuffled array of training row indices
  weights,         \* the in-memory model: the gradient steps it has taken
  val_scored,      \* the validation rows scored at the last epoch end
  val_loss,        \* logs["val_loss"] of the last completed epoch
  best,            \* checkpoint.best
  model_h5,        \* the checkpoint file
  evaluated,       \* model.predict(X_test): the weights it predicted with
  directory,       \* the rename script's working directory: name -> content
  before,          \* the directory when the script started
  csv_files        \* the words of the for loop that are still to come

loadVars == <<file, lines, idx, text_pairs, shuffle_i>>

splitVars == <<num_val_samples, num_train_samples, train, val, test>>

engVars == <<eng_tokenizer, eng_vocab_size, eng_length, X_train, X_val, X_test>>

spaVars == <<spa_tokenizer, spa_vocab_size, spa_length, Y_train, Y_val, Y_test>>

callVars == <<texts, tokenizer, maxlen, probe, sequences, sentences, labels>>

fitVars ==
  <<num_train, num_val, batch, epoch, step, weights, val_scored, val_loss,
    best, model_h5, evaluated>>

renameVars == <<directory, before, csv_files>>

vars ==
  <<pc, error, loadVars, splitVars, engVars, spaVars, callVars, fitVars,
    renameVars>>

\* Tokenizer(): nothing fitted yet.
NewTokenizer == FitOnTexts(<<>>)

\* The names the cells have not assigned yet.
SplitUnset ==
  /\ num_val_samples = 0
  /\ num_train_samples = 0
  /\ train = <<>>
  /\ val = <<>>
  /\ test = <<>>

EngUnset ==
  /\ eng_tokenizer = NewTokenizer
  /\ eng_vocab_size = 0
  /\ eng_length = 0
  /\ X_train = <<>>
  /\ X_val = <<>>
  /\ X_test = <<>>

SpaUnset ==
  /\ spa_tokenizer = NewTokenizer
  /\ spa_vocab_size = 0
  /\ spa_length = 0
  /\ Y_train = <<>>
  /\ Y_val = <<>>
  /\ Y_test = <<>>

CallUnset ==
  /\ texts = <<>>
  /\ tokenizer = NewTokenizer
  /\ maxlen = 0
  /\ probe = <<>>
  /\ sequences = <<>>
  /\ sentences = <<>>
  /\ labels = <<>>

\* No checkpoint file.
NoFile == [written |-> FALSE, weights |-> 0, val_loss |-> 0]

\* No batch of the epoch was trained yet.
NoBatch == [start |-> 0, stop |-> 0]

\* model.predict has not run.
NotEvaluated == [done |-> FALSE, weights |-> 0]

\* An empty directory.
EmptyDirectory == [name \in {} |-> ""]

RenameUnset ==
  /\ directory = EmptyDirectory
  /\ before = EmptyDirectory
  /\ csv_files = <<>>

FitUnset ==
  /\ num_train = 0
  /\ num_val = 0
  /\ batch = NoBatch
  /\ epoch = 0
  /\ step = 0
  /\ weights = 0
  /\ val_scored = 0
  /\ val_loss = 0
  /\ best = 0
  /\ model_h5 = NoFile
  /\ evaluated = NotEvaluated

Init ==
  /\ pc = "read"
  /\ error = "none"
  /\ file \in Files
  /\ lines = <<>>
  /\ idx = 0
  /\ text_pairs = <<>>
  /\ shuffle_i = 0
  /\ SplitUnset
  /\ EngUnset
  /\ SpaUnset
  /\ CallUnset
  /\ FitUnset
  /\ RenameUnset

(***************************************************************************)
(* The corpus loading cell, statement by statement                         *)
(***************************************************************************)

\* with open(text_file) as f: lines = f.read().split("\n")[:-1]
\* text_pairs = None
ReadFile ==
  /\ pc = "read"
  /\ lines' = ReadLines(file)
  /\ text_pairs' = <<>>
  /\ idx' = 0
  /\ pc' = "load"
  /\ UNCHANGED <<error, file, shuffle_i, splitVars, engVars, spaVars,
                 callVars, fitVars, renameVars>>

\* UnpackRaises accepting a line with more than two fields.
UnpackRaisesFewOnly(fields) == Len(fields) < 2

\* eng, spa = fields raises ValueError unless there are exactly two fields.
UnpackRaises(fields) == Len(fields) # 2

\* One iteration of the load loop that does not break:
\* eng, spa = line.split("\t") raises ValueError unless the line has exactly
\* two fields; otherwise the pair is appended to text_pairs.
LoadLine ==
  /\ pc = "load"
  /\ idx < Len(lines)
  /\ idx # SampleCap
  /\ LET fields == StrSplit(lines[idx + 1], "\t")
     IN  IF UnpackRaises(fields)
         THEN /\ pc' = "error"
              /\ error' = "ValueError"
              /\ UNCHANGED <<text_pairs, idx>>
         ELSE /\ text_pairs' = Append(text_pairs, <<fields[1], fields[2]>>)
              /\ idx' = idx + 1
              /\ UNCHANGED <<pc, error>>
  /\ UNCHANGED <<file, lines, shuffle_i, splitVars, engVars, spaVars,
                 callVars, fitVars, renameVars>>

\* The loop ends, by exhaustion or by the break at idx == cap, and
\* random.shuffle(text_pairs) starts: len(None) raises TypeError.
LoadEnd ==
  /\ pc = "load"
  /\ idx = Len(lines) \/ idx = SampleCap
  /\ IF text_pairs = <<>>
     THEN /\ pc' = "error"
          /\ error' = "TypeError"
          /\ UNCHANGED shuffle_i
     ELSE /\ pc' = "shuffle"
          /\ shuffle_i' = Len(text_pairs) - 1
          /\ UNCHANGED error
  /\ UNCHANGED <<file, lines, idx, text_pairs, splitVars, engVars, spaVars,
                 callVars, fitVars, renameVars>>

\* One iteration of random.shuffle: for i in reversed(range(1, len(x))):
\* j = randbelow(i + 1); x[i], x[j] = x[j], x[i]
ShuffleStep ==
  /\ pc = "shuffle"
  /\ shuffle_i >= 1
  /\ \E j \in 0..shuffle_i : text_pairs' = SwapRows(text_pairs, shuffle_i, j)
  /\ shuffle_i' = shuffle_i - 1
  /\ UNCHANGED <<pc, error, file, lines, idx, splitVars, engVars, spaVars,
                 callVars, fitVars, renameVars>>

\* The shuffle is over; the corpus is split.
Split ==
  /\ pc = "shuffle"
  /\ shuffle_i < 1
  /\ LET nval   == NumValSamples(Len(text_pairs))
         ntrain == NumTrainSamples(Len(text_pairs), nval)
     IN  /\ num_val_samples' = nval
         /\ num_train_samples' = ntrain
         /\ train' = TrainSlice(text_pairs, ntrain, nval)
         /\ val' = ValSlice(text_pairs, ntrain, nval)
         /\ test' = TestSlice(text_pairs, ntrain, nval)
  /\ pc' = "prep_eng"
  /\ UNCHANGED <<error, loadVars, engVars, spaVars, callVars, fitVars,
                 renameVars>>

(***************************************************************************)
(* The data preparation cell                                               *)
(***************************************************************************)

\* EngFitTexts taken from the training partition.
EngFitTextsTrain == Column(train, 0)

\* The texts the English tokenizer and max length are computed from.
EngFitTexts == Column(text_pairs, 0)

\* The texts the Spanish tokenizer and max length are computed from.
SpaFitTexts == Column(text_pairs, 1)

\* "Prep English examples"
PrepEnglish ==
  /\ pc = "prep_eng"
  /\ LET tok == return_fitted_tokenizer(EngFitTexts)
         len == calculate_max_length(EngFitTexts)
     IN  /\ eng_tokenizer' = tok
         /\ eng_vocab_size' = vocab_size(tok)
         /\ eng_length' = len
         /\ IF \E part \in {train, val, test} :
                 sequence_texts_raises(tok, len, Column(part, 0))
            THEN /\ pc' = "error"
                 /\ error' = "ValueError"
                 /\ UNCHANGED <<X_train, X_val, X_test>>
            ELSE /\ X_train' = sequence_texts(tok, len, Column(train, 0))
                 /\ X_val' = sequence_texts(tok, len, Column(val, 0))
                 /\ X_test' = sequence_texts(tok, len, Column(test, 0))
                 /\ pc' = "prep_spa"
                 /\ UNCHANGED error
  /\ UNCHANGED <<loadVars, splitVars, spaVars, callVars, fitVars, renameVars>>

\* One partition's labels: sequence_texts, then to_categorical.
Labels(tok, len, size, part) ==
  ToCategorical(sequence_texts(tok, len, Column(part, 1)), len, size)

LabelsRaise(tok, len, size, part) ==
  \/ sequence_texts_raises(tok, len, Column(part, 1))
  \/ ToCategoricalRaises(sequence_texts(tok, len, Column(part, 1)), size)

\* "Prep Spanish examples"
PrepSpanish ==
  /\ pc = "prep_spa"
  /\ LET tok  == return_fitted_tokenizer(SpaFitTexts)
         len  == calculate_max_length(SpaFitTexts)
         size == vocab_size(tok)
     IN  /\ spa_tokenizer' = tok
         /\ spa_vocab_size' = size
         /\ spa_length' = len
         /\ IF \E part \in {train, val, test} : LabelsRaise(tok, len, size, part)
            THEN /\ pc' = "error"
                 /\ error' = IF \E part \in {train, val, test} :
                                   sequence_texts_raises(tok, len, Column(part, 1))
                              THEN "ValueError"
                              ELSE "IndexError"
                 /\ UNCHANGED <<Y_train, Y_val, Y_test>>
            ELSE /\ Y_train' = Labels(tok, len, size, train)
                 /\ Y_val' = Labels(tok, len, size, val)
                 /\ Y_test' = Labels(tok, len, size, test)
                 /\ pc' = "done"
                 /\ UNCHANGED error
  /\ UNCHANGED <<loadVars, splitVars, engVars, callVars, fitVars, renameVars>>

Next ==
  \/ ReadFile
  \/ LoadLine
  \/ LoadEnd
  \/ ShuffleStep
  \/ Split
  \/ PrepEnglish
  \/ PrepSpanish

Spec == Init /\ [][Next]_vars

(***************************************************************************)
(* The pipeline followed by a call of to_categorical on an array of ids    *)
(* that sequence_texts did not make, with the Spanish vocabulary size as   *)
(* its number of classes.                                                   *)
(***************************************************************************)

\* The ids of the array are 0..MaxId.
MaxId == 3

\* The arrays of ids: one row of one or two ids.
IdArrays == {<<row>> : row \in UNION {[1..n -> 0..MaxId] : n \in {1, 2}}}

\* labels = to_categorical(sequences, num_classes=spa_vocab_size)
CallToCategorical ==
  /\ pc = "done"
  /\ \E y \in IdArrays :
       /\ sequences' = y
       /\ IF ToCategoricalRaises(y, spa_vocab_size)
          THEN /\ pc' = "label_error"
               /\ error' = "IndexError"
               /\ UNCHANGED labels
          ELSE /\ labels' = ToCategorical(y, Len(y[1]), spa_vocab_size)
               /\ pc' = "labelled"
               /\ UNCHANGED error
  /\ UNCHANGED <<loadVars, splitVars, engVars, spaVars, fitVars, renameVars,
                 texts, tokenizer, maxlen, probe, sentences>>

NextLabel ==
  \/ Next
  \/ CallToCategorical

SpecLabel == Init /\ [][NextLabel]_vars

(***************************************************************************)
(* The split on its own, for the corpus sizes the notebook's cap of 10000  *)
(* lines allows: the run is at the end of random.shuffle with a corpus of  *)
(* n rows.                                                                 *)
(***************************************************************************)

\* The largest corpus size tried.
MaxCorpus == 200

Digits == <<"0", "1", "2", "3", "4", "5", "6", "7", "8", "9">>

RECURSIVE Numeral(_)
Numeral(n) ==
  IF n < 10 THEN <<Digits[n + 1]>>
  ELSE Numeral(n \div 10) \o <<Digits[(n % 10) + 1]>>

\* A corpus of n distinct rows.
NumberedPairs(n) == [k \in 1..n |-> <<Numeral(k), <<"n">> \o Numeral(k)>>]

InitSplit ==
  /\ pc = "shuffle"
  /\ error = "none"
  /\ file = <<>>
  /\ lines = <<>>
  /\ idx = 0
  /\ \E n \in 1..MaxCorpus : text_pairs = NumberedPairs(n)
  /\ shuffle_i = 0
  /\ SplitUnset
  /\ EngUnset
  /\ SpaUnset
  /\ CallUnset
  /\ FitUnset
  /\ RenameUnset

NextSplit == Split

SpecSplit == InitSplit /\ [][NextSplit]_vars

(***************************************************************************)
(* The functions of the data preparation cell on their own: a tokenizer    *)
(* and a max length are fitted on texts, then a sentence is encoded with   *)
(* sequence_texts and decoded with sequences_to_texts, as                  *)
(* generate_eg_predictions decodes the rows of X_test.                     *)
(***************************************************************************)

Sentences ==
  {<<"G", "o", ".">>,
   <<"I", " ", "g", "o">>,
   <<"a", "-", "b", " ", "c">>,
   <<"R", "u", "n", " ", "f", "a", "r", " ", "a", "w", "a", "y">>,
   <<"I", " ", "n", "e", "v", "e", "r", " ", "g", "o">>,
   <<"g", "o", ",", " ", "G", "o", " ", "f", "a", "r", "!">>,
   <<"s", "t", "o", "p">>,
   <<>>}

\* The most texts a tokenizer is fitted on.
MaxTexts == 2

InitCall ==
  /\ pc = "fit"
  /\ error = "none"
  /\ file = <<>>
  /\ lines = <<>>
  /\ idx = 0
  /\ text_pairs = <<>>
  /\ shuffle_i = 0
  /\ SplitUnset
  /\ EngUnset
  /\ SpaUnset
  /\ texts \in UNION {[1..n -> Sentences] : n \in 1..MaxTexts}
  /\ tokenizer = NewTokenizer
  /\ maxlen = 0
  /\ probe = <<>>
  /\ sequences = <<>>
  /\ sentences = <<>>
  /\ labels = <<>>
  /\ FitUnset
  /\ RenameUnset

\* tokenizer = return_fitted_tokenizer(texts); maxlen = calculate_max_length(texts)
CallFit ==
  /\ pc = "fit"
  /\ tokenizer' = return_fitted_tokenizer(texts)
  /\ maxlen' = calculate_max_length(texts)
  /\ pc' = "encode"
  /\ UNCHANGED <<error, loadVars, splitVars, engVars, spaVars, fitVars,
                 renameVars, texts, probe, sequences, sentences, labels>>

\* sequences = sequence_texts(tokenizer, maxlen, [probe])
CallSequenceTexts ==
  /\ pc = "encode"
  /\ \E s \in Sentences :
       /\ probe' = s
       /\ IF sequence_texts_raises(tokenizer, maxlen, <<s>>)
          THEN /\ pc' = "error"
               /\ error' = "ValueError"
               /\ UNCHANGED sequences
          ELSE /\ sequences' = sequence_texts(tokenizer, maxlen, <<s>>)
               /\ pc' = "decode"
               /\ UNCHANGED error
  /\ UNCHANGED <<loadVars, splitVars, engVars, spaVars, fitVars, renameVars,
                 texts, tokenizer, maxlen, sentences, labels>>

\* sentences = tokenizer.sequences_to_texts(sequences)
CallSequencesToTexts ==
  /\ pc = "decode"
  /\ sentences' = SequencesToTexts(tokenizer, sequences)
  /\ pc' = "decoded"
  /\ UNCHANGED <<error, loadVars, splitVars, engVars, spaVars, fitVars,
                 renameVars, texts, tokenizer, maxlen, probe, sequences,
                 labels>>

NextCall ==
  \/ CallFit
  \/ CallSequenceTexts
  \/ CallSequencesToTexts

SpecCall == InitCall /\ [][NextCall]_vars

(***************************************************************************)
(* Properties of the corpus loading and data preparation cells             *)
(***************************************************************************)

Range(seq) == {seq[k] : k \in 1..Len(seq)}

Count(seq, x) == Cardinality({k \in 1..Len(seq) : seq[k] = x})

Min2(a, b) == IF a < b THEN a ELSE b

TabCount(line) == Cardinality({k \in 1..Len(line) : line[k] = "\t"})

\* The leading lines: those the load loop reads.
Leading == 1..Min2(Len(lines), SampleCap)

\* The field of line k before its first tab and the field after it.
FieldBefore(line) ==
  SubSeq(line, 1, (CHOOSE k \in 1..Len(line) : line[k] = "\t") - 1)

FieldAfter(line) ==
  SubSeq(line, (CHOOSE k \in 1..Len(line) : line[k] = "\t") + 1, Len(line))

\* The corpus as loaded: one pair per leading line.
Loaded == [k \in Leading |-> <<FieldBefore(lines[k]), FieldAfter(lines[k])>>]

AfterSplit == pc \in {"prep_eng", "prep_spa", "done"}

Partitions == train \o val \o test

\* C1: once the corpus is shuffled and split, every sentence pair occurs in
\* the three partitions together exactly as many times as it was loaded:
\* none is lost, none is duplicated.
C1_PartitionsArePermutation ==
  AfterSplit =>
    /\ Len(Partitions) = Len(Loaded)
    /\ \A row \in Range(Loaded) \cup Range(Partitions) :
         Count(Partitions, row) = Count(Loaded, row)

\* The distinct tokens of a sequence of sentences.
TokensOf(ts) ==
  UNION {Range(TextToWordSequence(ts[r])) : r \in 1..Len(ts)}

\* The largest whitespace-separated word count among the sentences.
LongestOf(ts) ==
  CHOOSE n \in {Len(SplitWhitespace(ts[r])) : r \in 1..Len(ts)} :
    \A r \in 1..Len(ts) : Len(SplitWhitespace(ts[r])) <= n

RowIsPaddedOrTruncated(row, ids, len) ==
  /\ Len(row) = len
  /\ IF Len(ids) <= len
     THEN /\ \A k \in 1..Len(ids) : row[k] = ids[k]
          /\ \A k \in (Len(ids) + 1)..len : row[k] = 0
     ELSE \E off \in 0..(Len(ids) - len) :
            \A k \in 1..len : row[k] = ids[off + k]

EncodedAsClaimed(tok, len, ts, rows) ==
  /\ Len(rows) = Len(ts)
  /\ \A r \in 1..Len(ts) :
       RowIsPaddedOrTruncated(rows[r], TextToSequence(tok, ts[r]), len)

\* C3: every sentence of every partition is encoded to the language's max
\* length: a shorter sentence's ids come first and zeros fill the rest, a
\* longer sentence is truncated to that length.
C3_EncodedLength ==
  /\ pc \in {"prep_spa", "done"} =>
       /\ EncodedAsClaimed(eng_tokenizer, eng_length, Column(train, 0), X_train)
       /\ EncodedAsClaimed(eng_tokenizer, eng_length, Column(val, 0), X_val)
       /\ EncodedAsClaimed(eng_tokenizer, eng_length, Column(test, 0), X_test)
  /\ pc = "done" =>
       \A part \in {train, val, test} :
         EncodedAsClaimed(spa_tokenizer, spa_length, Column(part, 1),
                          sequence_texts(spa_tokenizer, spa_length, Column(part, 1)))

\* One sentence is padded, another truncated, and the validation partition
\* is not empty.
C3_Witness ==
  /\ pc = "done"
  /\ Len(X_val) > 0
  /\ \E r \in 1..Len(Partitions) :
       Len(TextToSequence(eng_tokenizer, Partitions[r][1])) < eng_length
  /\ \E r \in 1..Len(Partitions) :
       Len(TextToSequence(eng_tokenizer, Partitions[r][1])) > eng_length

\* The vocabulary of tokenizer tok, fitted on the texts ts: one id per distinct token,
\* no id shared, the ids 1..n for n distinct tokens, and size n + 1.
VocabularyAsClaimed(tok, size, ts) ==
  LET wi == tok.word_index
      n  == Cardinality(TokensOf(ts))
  IN  /\ DOMAIN wi = TokensOf(ts)
      /\ \A w1, w2 \in DOMAIN wi : wi[w1] = wi[w2] => w1 = w2
      /\ {wi[w] : w \in DOMAIN wi} = 1..n
      /\ \A w \in DOMAIN wi : wi[w] # 0
      /\ size = n + 1

\* C7: in each language's vocabulary the distinct tokens have the ids 1..n,
\* one each, 0 is no token's id, and the vocabulary size is n + 1.
C7_VocabularyIds ==
  /\ pc \in {"prep_spa", "done"} =>
       VocabularyAsClaimed(eng_tokenizer, eng_vocab_size, Column(text_pairs, 0))
  /\ pc = "done" =>
       VocabularyAsClaimed(spa_tokenizer, spa_vocab_size, Column(text_pairs, 1))

\* A vocabulary of three or more tokens, one of them seen more than once.
C7_Witness ==
  /\ pc = "done"
  /\ eng_vocab_size >= 4
  /\ \E w \in DOMAIN eng_tokenizer.word_index :
       Count(AllWords(Column(text_pairs, 0)), w) >= 2

RECURSIVE Sum(_)
Sum(seq) == IF Len(seq) = 0 THEN 0 ELSE seq[1] + Sum(Tail(seq))

\* The label vector of sentence r at timestep t.
LabelAt(Y, r, t) == IF spa_length = 1 THEN Y[r] ELSE Y[r][t]

LabelsAsClaimed(part, Y) ==
  /\ Len(Y) = Len(part)
  /\ \A r \in 1..Len(part) : \A t \in 1..spa_length :
       LET id  == sequence_texts(spa_tokenizer, spa_length, <<part[r][2]>>)[1][t]
           vec == LabelAt(Y, r, t)
       IN  /\ Len(vec) = spa_vocab_size
           /\ vec[id + 1] = 1
           /\ \A k \in 1..Len(vec) : k # id + 1 => vec[k] = 0
           /\ Sum(vec) = 1

\* C8: for every sentence of every partition and every timestep, padded
\* ones included, the label vector has the target vocabulary size, a single
\* 1 at the timestep's token id and 0 elsewhere.
C8_OneHotLabels ==
  pc = "done" =>
    /\ LabelsAsClaimed(train, Y_train)
    /\ LabelsAsClaimed(val, Y_val)
    /\ LabelsAsClaimed(test, Y_test)

\* A validation sentence with a padded timestep.
C8_Witness ==
  /\ pc = "done"
  /\ spa_length >= 2
  /\ \E r \in 1..Len(val) : Y_val[r][spa_length][1] = 1

\* The leading lines that do not hold exactly one tab.
Malformed == {k \in Leading : TabCount(lines[k]) # 1}

FirstMalformed == CHOOSE k \in Malformed : \A m \in Malformed : k <= m

\* C10: when a leading line does not hold exactly one tab, the run never
\* gets past that line: it ends in ValueError at it, with no shuffled corpus,
\* no partitions and nothing encoded.
C10_MalformedLineFails ==
  (pc # "read" /\ Malformed # {}) =>
    /\ pc \in {"load", "error"}
    /\ idx < FirstMalformed
    /\ Len(text_pairs) = idx
    /\ pc = "error" => (error = "ValueError" /\ idx = FirstMalformed - 1)
    /\ SplitUnset /\ EngUnset /\ SpaUnset

\* The run failed at a line with two tabs, after loading a line.
C10_Witness ==
  /\ pc = "error"
  /\ error = "ValueError"
  /\ idx >= 1
  /\ TabCount(lines[idx + 1]) = 2

\* The lines of a text: its newline-separated pieces, without the empty
\* piece after a last newline.
LinesOfFile(text) ==
  LET all == StrSplit(text, "\n")
  IN  IF Len(all[Len(all)]) = 0 THEN SubSeq(all, 1, Len(all) - 1) ELSE all

WellFormed(line) == TabCount(line) = 1

\* The pair of fields of a well-formed line.
PairOf(line) == <<FieldBefore(line), FieldAfter(line)>>

\* The load loop is over.
LoadLoopEnded == pc = "load" /\ (idx = Len(lines) \/ idx = SampleCap)

\* C11: for a file of N well-formed lines, when the load loop is over the
\* corpus has min(N, cap) pairs, the i-th being the two tab-separated fields
\* of the i-th line of the file; no line past the cap is ever loaded.
C11_LoadsLeadingLines ==
  LET fl == LinesOfFile(file)
      n  == Min2(Len(fl), SampleCap)
  IN  /\ Len(text_pairs) <= SampleCap
      /\ (LoadLoopEnded /\ \A k \in 1..Len(fl) : WellFormed(fl[k])) =>
            /\ Len(text_pairs) = n
            /\ \A i \in 1..n : text_pairs[i] = PairOf(fl[i])

\* C11 for the files whose last line ends in a newline.
C11_LoadsLeadingTerminatedLines ==
  LET fl == LinesOfFile(file)
      n  == Min2(Len(fl), SampleCap)
  IN  /\ Len(text_pairs) <= SampleCap
      /\ (/\ LoadLoopEnded
          /\ \A k \in 1..Len(fl) : WellFormed(fl[k])
          /\ (Len(file) = 0 \/ file[Len(file)] = "\n")) =>
            /\ Len(text_pairs) = n
            /\ \A i \in 1..n : text_pairs[i] = PairOf(fl[i])

\* The rows are rows of the loaded corpus, and as many.
RowsAreLoaded(rows) ==
  /\ Len(rows) = Len(Loaded)
  /\ \A r \in 1..Len(rows) : \E k \in Leading : rows[r] = PairOf(lines[k])

\* C17: after random.shuffle and in every partition, each row is the pair of
\* fields of one and the same line of the file, and there are as many rows
\* as loaded pairs.
C17_RowsAreLoadedPairs ==
  /\ (pc = "shuffle" \/ AfterSplit) => RowsAreLoaded(text_pairs)
  /\ AfterSplit => RowsAreLoaded(Partitions)

\* The shuffle changed the corpus, whose lines differ in both fields, and
\* the validation and test partitions are not empty.
C17_Witness ==
  /\ AfterSplit
  /\ Partitions # Loaded
  /\ Len(val) > 0
  /\ Len(test) > 0
  /\ \E k, m \in Leading :
       /\ Loaded[k][1] # Loaded[m][1]
       /\ Loaded[k][2] # Loaded[m][2]
       /\ Loaded[k] \in Range(Partitions)
       /\ Loaded[m] \in Range(Partitions)

\* The sentences of a partition keep all their token ids, in order.
NoTokenLost(tok, len, ts, rows) ==
  \A r \in 1..Len(ts) :
    LET ids == TextToSequence(tok, ts[r])
    IN  /\ Len(ids) <= len
        /\ SubSeq(rows[r], 1, Len(ids)) = ids

\* C18: every sentence of the corpus has at most max length token ids, so
\* that no partition's encoding loses a token id of a sentence.
C18_NoCorpusSentenceTruncated ==
  /\ (pc \in {"prep_spa", "done"}) =>
       /\ \A r \in 1..Len(text_pairs) :
            Len(TextToSequence(eng_tokenizer, text_pairs[r][1])) <= eng_length
       /\ NoTokenLost(eng_tokenizer, eng_length, Column(train, 0), X_train)
       /\ NoTokenLost(eng_tokenizer, eng_length, Column(val, 0), X_val)
       /\ NoTokenLost(eng_tokenizer, eng_length, Column(test, 0), X_test)
  /\ (pc = "done") =>
       \A r \in 1..Len(text_pairs) :
         Len(TextToSequence(spa_tokenizer, text_pairs[r][2])) <= spa_length

SentenceGo == <<"g", "o", ".">>

SentenceVe == <<"v", "e", ".">>

WordGo == <<"g", "o">>

WordVe == <<"v", "e">>

\* C14: on the two-pair corpus the pipeline ends with max lengths 1 and 1
\* and vocabulary sizes 3 and 3, "go." encoded as [id_go], "ve." as [id_ve],
\* and the label of "ve." a vector of length 3 with its single 1 at id_ve,
\* whatever the shuffle chose.
C14_EndToEnd ==
  (file = EndToEndFile /\ pc \in {"done", "error"}) =>
    /\ pc = "done"
    /\ eng_length = 1
    /\ spa_length = 1
    /\ eng_vocab_size = 3
    /\ spa_vocab_size = 3
    /\ WordGo \in DOMAIN eng_tokenizer.word_index
    /\ WordVe \in DOMAIN spa_tokenizer.word_index
    /\ sequence_texts(eng_tokenizer, eng_length, <<SentenceGo>>)
         = <<<<eng_tokenizer.word_index[WordGo]>>>>
    /\ sequence_texts(spa_tokenizer, spa_length, <<SentenceVe>>)
         = <<<<spa_tokenizer.word_index[WordVe]>>>>
    /\ \A r \in 1..Len(train) :
         train[r] = <<SentenceGo, SentenceVe>> =>
           /\ X_train[r] = <<eng_tokenizer.word_index[WordGo]>>
           /\ Len(Y_train[r]) = 3
           /\ Sum(Y_train[r]) = 1
           /\ Y_train[r][spa_tokenizer.word_index[WordVe] + 1] = 1

\* The ids of an array of ids.
IdsOf(y) == UNION {Range(y[r]) : r \in 1..Len(y)}

\* The ids of the encoded target sentences of a partition.
TargetIds(part) ==
  IdsOf(sequence_texts(spa_tokenizer, spa_length, Column(part, 1)))

\* The Spanish side of the data preparation cell has run, to its end or to
\* an error.
SpanishPrepared == spa_vocab_size > 0

\* C13: every id of the encoded target sentences of every partition is in
\* 0..spa_vocab_size - 1 and the pipeline's to_categorical never raises;
\* called on an array with an id >= spa_vocab_size, to_categorical raises
\* and returns no labels, and it raises on no other array.
C13_LabelIdsInRange ==
  /\ SpanishPrepared =>
       /\ \A part \in {train, val, test} :
            TargetIds(part) \subseteq 0..(spa_vocab_size - 1)
       /\ pc = "error" => error # "IndexError"
  /\ pc = "label_error" =>
       /\ \E id \in IdsOf(sequences) : id >= spa_vocab_size
       /\ labels = <<>>
  /\ pc = "labelled" =>
       /\ \A id \in IdsOf(sequences) : id < spa_vocab_size
       /\ Len(labels) = Len(sequences)

\* The pipeline made labels, the largest id of its encoded target sentences
\* being spa_vocab_size - 1, and to_categorical then raised on an array
\* with an id in range and the id spa_vocab_size.
C13_Witness ==
  /\ pc = "label_error"
  /\ Len(Y_train) > 0
  /\ (spa_vocab_size - 1) \in TargetIds(train)
  /\ 0 \in TargetIds(train)
  /\ 1 \in IdsOf(sequences)
  /\ spa_vocab_size \in IdsOf(sequences)

(***************************************************************************)
(* Properties of the split                                                 *)
(***************************************************************************)

\* C6: for every corpus size n the validation and test partitions have
\* floor(0.15 n) rows each and the training partition the other rows; train
\* is the first rows of the shuffled corpus, val the next, test the last.
C6_PartitionSizes ==
  AfterSplit =>
    LET n  == Len(text_pairs)
        nv == (15 * n) \div 100
        nt == n - 2 * nv
    IN  /\ Len(train) + Len(val) + Len(test) = n
        /\ Len(val) = nv
        /\ Len(test) = nv
        /\ Len(train) = nt
        /\ \A k \in 1..nt : train[k] = text_pairs[k]
        /\ \A k \in 1..nv : val[k] = text_pairs[nt + k]
        /\ \A k \in 1..nv : test[k] = text_pairs[nt + nv + k]

\* A corpus size of which 0.15 is a whole number, split.
C6_Witness ==
  /\ AfterSplit
  /\ Len(text_pairs) % 20 = 0
  /\ Len(val) >= 3
  /\ Len(train) > Len(val)

(***************************************************************************)
(* Properties of sequence_texts and sequences_to_texts                     *)
(***************************************************************************)

\* The tokens of the encoded sentence.
ProbeTokens == TextToWordSequence(probe)

Known(w) == w \in DOMAIN tokenizer.word_index

\* The number of unknown tokens before position p of the sentence.
UnknownBefore(p) == Cardinality({q \in 1..(p - 1) : ~Known(ProbeTokens[q])})

NumKnown == Cardinality({p \in 1..Len(ProbeTokens) : Known(ProbeTokens[p])})

\* The words of a decoded sentence.
WordsOf(text) == NonEmpty(StrSplit(text, " "))

\* C4 as claimed: a sentence whose tokens are all in the vocabulary is
\* recovered, token by token, by decoding its encoding.
C4_RoundTrip ==
  (pc = "decoded" /\ \A p \in 1..Len(ProbeTokens) : Known(ProbeTokens[p])) =>
    WordsOf(sentences[1]) = ProbeTokens

\* C4 as amended: a sentence whose tokens are all in the vocabulary and are
\* no more than the max length is recovered by decoding its encoding.
C4_RoundTripWithinLength ==
  (/\ pc = "decoded"
   /\ \A p \in 1..Len(ProbeTokens) : Known(ProbeTokens[p])
   /\ Len(ProbeTokens) <= maxlen) =>
    WordsOf(sentences[1]) = ProbeTokens

\* A sentence of two or more known tokens, shorter than the max length and
\* not one of the fitted texts, has been decoded.
C4_Witness ==
  /\ pc = "decoded"
  /\ \A p \in 1..Len(ProbeTokens) : Known(ProbeTokens[p])
  /\ Len(ProbeTokens) >= 2
  /\ Len(ProbeTokens) < maxlen
  /\ \A r \in 1..Len(texts) : texts[r] # probe

HasUnknown == \E p \in 1..Len(ProbeTokens) : ~Known(ProbeTokens[p])

\* The encoding holds the known tokens' ids, each moved left by the number
\* of unknown tokens before it, and zeros after them.
KnownIdsThenZeros ==
  /\ \A p \in 1..Len(ProbeTokens) :
       Known(ProbeTokens[p]) =>
         /\ p - UnknownBefore(p) <= Len(sequences[1])
         /\ sequences[1][p - UnknownBefore(p)] = tokenizer.word_index[ProbeTokens[p]]
  /\ \A k \in (NumKnown + 1)..Len(sequences[1]) : sequences[1][k] = 0

\* The encoding holds the ids of the last max-length known tokens and no
\* padding.
LastKnownIds ==
  /\ Len(sequences[1]) = maxlen
  /\ \A p \in 1..Len(ProbeTokens) :
       (Known(ProbeTokens[p]) /\ p - UnknownBefore(p) > NumKnown - maxlen) =>
         sequences[1][p - UnknownBefore(p) - (NumKnown - maxlen)]
           = tokenizer.word_index[ProbeTokens[p]]

\* C9 as claimed: a sentence with unknown tokens is encoded as the ids of
\* its known tokens, in order, each moved left by the number of unknown
\* tokens before it, followed by zero padding.
C9_UnknownDropped ==
  (pc \in {"decode", "decoded"} /\ HasUnknown) => KnownIdsThenZeros

\* C9 as amended: so it is when the known tokens are no more than the max
\* length; when they are more, the encoding is the ids of the last
\* max-length known tokens, with no padding.
C9_UnknownDroppedWithinLength ==
  (pc \in {"decode", "decoded"} /\ HasUnknown) =>
    IF NumKnown <= maxlen THEN KnownIdsThenZeros ELSE LastKnownIds

\* A sentence with an unknown token before a known one, and padding.
C9_Witness ==
  /\ pc = "decoded"
  /\ \E p \in 1..Len(ProbeTokens) :
       Known(ProbeTokens[p]) /\ UnknownBefore(p) >= 1
  /\ NumKnown >= 2
  /\ NumKnown < maxlen

(***************************************************************************)
(* The training cell: model.fit(X_train, Y_train, epochs=30, batch_size=64,*)
(* validation_data=(X_val, Y_val), callbacks=[checkpoint]) with            *)
(* checkpoint = ModelCheckpoint('model.h5', monitor='val_loss',            *)
(* save_best_only=True, mode='min').  A validation loss is a positive      *)
(* number or NaN; every sequence of losses is possible.                    *)
(***************************************************************************)

epochs == 30

batch_size == 64

\* The validation losses are 1..MaxLoss and NaN.
MaxLoss == 3

NaN == -1

\* np.Inf, the initial checkpoint.best in mode 'min'.
Infinity == MaxLoss + 1

Losses == (1..MaxLoss) \cup {NaN}

\* The training partition has up to MaxBatches full batches, and one row
\* more or not.
MaxBatches == 1

TrainSizes == {b * batch_size + r : b \in 0..MaxBatches, r \in {0, 1}} \ {0}

\* The corpus sizes of the training calls: the least corpus with a
\* validation partition, and those whose training partition has one of the
\* sizes above.
FitCorpusSizes ==
  {n \in SampleCap..((MaxBatches + 1) * 100) :
     \/ n = SampleCap
     \/ NumTrainSamples(n, NumValSamples(n)) \in TrainSizes}

\* StepsPerEpoch without the last, smaller batch.
StepsPerEpochDropRemainder(n) == n \div batch_size

\* The batches of an epoch: ceil(n / batch_size)
StepsPerEpoch(n) == (n + batch_size - 1) \div batch_size

\* Batch number b (from 0) of an epoch.  fit shuffles the array of the n
\* training row indices before each epoch and takes its slices
\* [b * batch_size : min(n, (b + 1) * batch_size)] as the batches.
BatchSlice(n, b) ==
  [start |-> b * batch_size, stop |-> Min2(n, (b + 1) * batch_size)]

\* monitor_op without the strictness: np.less_equal
MonitorOpOrEqual(current, reference) ==
  current # NaN /\ reference # NaN /\ current <= reference

\* monitor_op of mode 'min', np.less: a comparison with NaN is false.
MonitorOp(current, reference) ==
  current # NaN /\ reference # NaN /\ current < reference

\* FitStops with training also stopped by an epoch that does not improve
\* the validation loss.
FitStopsWithoutImprovement(done, current, reference) ==
  done = epochs \/ ~MonitorOp(current, reference)

\* fit returns after the epoch that completes the epochs argument; no
\* callback sets model.stop_training.
FitStops(done, current, reference) == done = epochs

InitFit ==
  /\ pc = "fit_epoch"
  /\ error = "none"
  /\ file = <<>>
  /\ lines = <<>>
  /\ idx = 0
  /\ text_pairs = <<>>
  /\ shuffle_i = 0
  /\ SplitUnset
  /\ EngUnset
  /\ SpaUnset
  /\ CallUnset
  /\ \E n \in FitCorpusSizes :
       /\ num_val = NumValSamples(n)
       /\ num_train = NumTrainSamples(n, num_val)
  /\ batch = NoBatch
  /\ epoch = 0
  /\ step = 0
  /\ weights = 0
  /\ val_scored = 0
  /\ val_loss = 0
  /\ best = Infinity
  /\ model_h5 = NoFile
  /\ evaluated = NotEvaluated
  /\ RenameUnset

\* One batch: one gradient step on the next slice of the epoch's row
\* indices.
TrainBatch ==
  /\ pc = "fit_epoch"
  /\ step < StepsPerEpoch(num_train)
  /\ batch' = BatchSlice(num_train, step)
  /\ step' = step + 1
  /\ weights' = weights + 1
  /\ UNCHANGED <<pc, error, loadVars, splitVars, engVars, spaVars, callVars,
                 renameVars, num_train, num_val, epoch, val_scored, val_loss,
                 best, model_h5, evaluated>>

\* The end of an epoch: the validation partition is scored, then
\* ModelCheckpoint.on_epoch_end saves the model if monitor_op(current, best).
\* After the last epoch fit returns.
EpochEnd ==
  /\ pc = "fit_epoch"
  /\ step = StepsPerEpoch(num_train)
  /\ val_scored' = num_val
  /\ \E current \in Losses :
       /\ val_loss' = current
       /\ IF MonitorOp(current, best)
          THEN /\ best' = current
               /\ model_h5' = [written |-> TRUE, weights |-> weights,
                               val_loss |-> current]
          ELSE UNCHANGED <<best, model_h5>>
       /\ pc' = IF FitStops(epoch + 1, current, best)
                THEN "fit_done" ELSE "fit_epoch"
  /\ epoch' = epoch + 1
  /\ step' = 0
  /\ batch' = NoBatch
  /\ UNCHANGED <<error, loadVars, splitVars, engVars, spaVars, callVars,
                 renameVars, num_train, num_val, weights, evaluated>>

\* EvaluatedWeights taken from the checkpoint file when there is one.
EvaluatedWeightsOfCheckpoint ==
  IF model_h5.written THEN model_h5.weights ELSE weights

\* The weights of model in model.predict: those in memory.
EvaluatedWeights == weights

\* preds = model.predict(X_test)
Evaluate ==
  /\ pc = "fit_done"
  /\ evaluated' = [done |-> TRUE, weights |-> EvaluatedWeights]
  /\ pc' = "evaluated"
  /\ UNCHANGED <<error, loadVars, splitVars, engVars, spaVars, callVars,
                 renameVars, num_train, num_val, batch, epoch, step, weights,
                 val_scored, val_loss, best, model_h5>>

NextFit ==
  \/ TrainBatch
  \/ EpochEnd
  \/ Evaluate

SpecFit == InitFit /\ [][NextFit]_vars

\* fit and predict run to their end: a step that can be taken is taken.
SpecFitLive == SpecFit /\ WF_vars(NextFit)

(***************************************************************************)
(* Properties of the training cell                                         *)
(***************************************************************************)

\* current improves on the best validation loss so far.
Improves(current, sofar) == current # NaN /\ current < sofar

CeilDiv(n) == CHOOSE q \in 0..n : q * batch_size >= n /\ (q - 1) * batch_size < n

Trained == pc \in {"fit_done", "evaluated"}

\* C12: training eventually ends, and when it has ended exactly epochs
\* epochs were trained, each with all its gradient steps; training neither
\* ends before the last epoch nor goes on after it, whatever the losses.
C12_TrainsForAllEpochs ==
  /\ <>Trained
  /\ [](Trained => (epoch = epochs /\ weights = epochs * CeilDiv(num_train)))
  /\ [](epoch >= epochs => Trained)

\* Training is over; the only improvement was in the first epoch and the
\* last epoch's loss is the worst.
C12_Witness ==
  /\ pc = "fit_done"
  /\ epoch = epochs
  /\ model_h5.written
  /\ model_h5.weights = StepsPerEpoch(num_train)
  /\ model_h5.val_loss = 1
  /\ val_loss = MaxLoss
  /\ num_train > batch_size

\* C16: a gradient step is one batch, which is the batch_size positions of
\* the epoch's array of row indices after those of the batch before it, or
\* fewer when the array ends; the epoch ends only when the batches have
\* taken every position, hence every training row, exactly once, after
\* ceil(n / batch_size) gradient steps; the validation partition is scored
\* in full and the checkpoint decision is taken at the end of the epoch and
\* at no other step.
C16_BatchesThenValidation ==
  [][/\ (weights' # weights) =>
          /\ weights' = weights + 1
          /\ epoch' = epoch
          /\ batch'.start = batch.stop
          /\ batch'.start < batch'.stop
          /\ batch'.stop <= num_train
          /\ \/ batch'.stop - batch'.start = batch_size
             \/ (batch'.stop - batch'.start < batch_size /\ batch'.stop = num_train)
          /\ UNCHANGED <<val_scored, val_loss, best, model_h5>>
     /\ (epoch' # epoch) =>
          /\ epoch' = epoch + 1
          /\ batch.stop = num_train
          /\ weights = epoch' * CeilDiv(num_train)
          /\ weights' = weights
          /\ val_scored' = num_val
     /\ (<<val_scored, val_loss, best, model_h5>>' # <<val_scored, val_loss, best, model_h5>>) =>
          epoch' = epoch + 1]_vars

\* The second epoch ended, after two batches of which the last was the
\* smaller one, and the checkpoint file was written.
C16_Witness ==
  /\ epoch = 2
  /\ step = 0
  /\ num_train > batch_size
  /\ num_train % batch_size # 0
  /\ weights = 2 * StepsPerEpoch(num_train)
  /\ val_scored = num_val
  /\ num_val > 1
  /\ model_h5.written
  /\ model_h5.weights = weights

\* C19: model.predict uses the weights in memory, which are those left by
\* the last gradient step of the last epoch; predicting neither reads nor
\* writes the checkpoint file, which changes during training only.
C19_EvaluatesFinalWeights ==
  /\ [](evaluated.done =>
          /\ evaluated.weights = weights
          /\ weights = epochs * CeilDiv(num_train))
  /\ [][(Trained \/ evaluated'.done) => (model_h5' = model_h5 /\ weights' = weights)]_vars

\* The test partition was predicted while the checkpoint file holds the
\* weights of an earlier epoch, whose validation loss was lower than the
\* last epoch's.
C19_Witness ==
  /\ pc = "evaluated"
  /\ evaluated.done
  /\ model_h5.written
  /\ model_h5.weights < evaluated.weights
  /\ model_h5.val_loss < val_loss

(***************************************************************************)
(* The rename script:                                                      *)
(*   for file in *.csv; do mv "$file" "$(basename "$file" .csv).dat"; done *)
(* run in a directory of regular files.  A file name is a str, a directory *)
(* a function from the names of its files to their contents.               *)
(***************************************************************************)

CsvSuffix == <<".", "c", "s", "v">>

DatSuffix == <<".", "d", "a", "t">>

\* The word *.csv
CsvPattern == <<"*">> \o CsvSuffix

\* The names a directory may hold, in the order the shell sorts them.
Listing ==
  <<<<".", "h", ".", "c", "s", "v">>,
    <<"a", ".", "c", "s", "v">>,
    <<"a", ".", "d", "a", "t">>,
    <<"b", ".", "c", "s", "v">>,
    <<"c", ".", "t", "x", "t">>>>

Contents == {"one", "two"}

\* The directories: any of the names, each with any content.
Directories ==
  UNION {[names -> Contents] : names \in SUBSET Range(Listing)}

EndsWith(name, suffix) ==
  /\ Len(name) >= Len(suffix)
  /\ SubSeq(name, Len(name) - Len(suffix) + 1, Len(name)) = suffix

\* The pattern *.csv matches a name that ends in .csv, except that * does
\* not match a leading dot.
GlobMatches(name) == EndsWith(name, CsvSuffix) /\ name[1] # "."

\* The expansion of *.csv: the matching names, sorted; the pattern itself
\* when no name matches.
Glob(dir) ==
  LET matches == SelectSeq(Listing, LAMBDA name : name \in DOMAIN dir /\ GlobMatches(name))
  IN  IF Len(matches) = 0 THEN <<CsvPattern>> ELSE matches

\* basename name suffix: the name without the suffix, unless the name is the
\* suffix.
Basename(name, suffix) ==
  IF EndsWith(name, suffix) /\ name # suffix
  THEN SubSeq(name, 1, Len(name) - Len(suffix))
  ELSE name

\* mv source target between regular files of the directory: fails, changing
\* nothing, when there is no source; otherwise the target, new or not, gets
\* the source's content and the source is gone.
Mv(dir, source, target) ==
  IF source \notin DOMAIN dir \/ source = target
  THEN dir
  ELSE [name \in (DOMAIN dir \ {source}) \cup {target} |->
          IF name = target THEN dir[source] ELSE dir[name]]

InitRename ==
  /\ pc = "rename"
  /\ error = "none"
  /\ file = <<>>
  /\ lines = <<>>
  /\ idx = 0
  /\ text_pairs = <<>>
  /\ shuffle_i = 0
  /\ SplitUnset
  /\ EngUnset
  /\ SpaUnset
  /\ CallUnset
  /\ FitUnset
  /\ directory \in Directories
  /\ before = directory
  /\ csv_files = <<>>

\* for file in *.csv: the pattern is expanded once, before the loop.
RenameGlob ==
  /\ pc = "rename"
  /\ csv_files' = Glob(directory)
  /\ pc' = "rename_loop"
  /\ UNCHANGED <<error, loadVars, splitVars, engVars, spaVars, callVars,
                 fitVars, directory, before>>

\* One iteration: mv "$file" "$(basename "$file" .csv).dat"
RenameMv ==
  /\ pc = "rename_loop"
  /\ Len(csv_files) > 0
  /\ directory' = Mv(directory, Head(csv_files),
                     Basename(Head(csv_files), CsvSuffix) \o DatSuffix)
  /\ csv_files' = Tail(csv_files)
  /\ UNCHANGED <<pc, error, loadVars, splitVars, engVars, spaVars, callVars,
                 fitVars, before>>

\* done
RenameDone ==
  /\ pc = "rename_loop"
  /\ Len(csv_files) = 0
  /\ pc' = "renamed"
  /\ UNCHANGED <<error, loadVars, splitVars, engVars, spaVars, callVars,
                 fitVars, renameVars>>

NextRename ==
  \/ RenameGlob
  \/ RenameMv
  \/ RenameDone

SpecRename == InitRename /\ [][NextRename]_vars

(***************************************************************************)
(* Properties of the rename script                                         *)
(***************************************************************************)

IsCsv(name) == EndsWith(name, CsvSuffix)

\* X.dat for the name X.csv
DatOf(name) == SubSeq(name, 1, Len(name) - Len(CsvSuffix)) \o DatSuffix

\* C15: when the loop has finished no name of the directory ends in .csv,
\* the content of each former X.csv is at X.dat, and every file whose name
\* did not end in .csv has its name and content as before.
C15_RenamesCsvToDat ==
  pc = "renamed" =>
    /\ \A name \in DOMAIN directory : ~IsCsv(name)
    /\ \A name \in DOMAIN before :
         IF IsCsv(name)
         THEN /\ DatOf(name) \in DOMAIN directory
              /\ directory[DatOf(name)] = before[name]
         ELSE /\ name \in DOMAIN directory
              /\ directory[name] = before[name]

\* C15 for the directories in which no name ending in .csv starts with a
\* dot and no X.dat stands next to an X.csv.
C15_RenamesCsvToDatWithoutClash ==
  (/\ pc = "renamed"
   /\ \A name \in DOMAIN before :
        IsCsv(name) => (name[1] # "." /\ DatOf(name) \notin DOMAIN before)) =>
    /\ \A name \in DOMAIN directory : ~IsCsv(name)
    /\ \A name \in DOMAIN before :
         IF IsCsv(name)
         THEN /\ DatOf(name) \in DOMAIN directory
              /\ directory[DatOf(name)] = before[name]
         ELSE /\ name \in DOMAIN directory
              /\ directory[name] = before[name]

====
